---------------------------- MODULE Spec2Model ----------------------------
(***************************************************************************)
(* Model of hid_pixel.py: the HIDPixelScreen transport (send_image,        *)
(* read_device_state, connect / __enter__ / __exit__) and the multiplex    *)
(* loop of main().  One process, the main loop, runs against an            *)
(* environment that decides what the HID library returns: the enumeration  *)
(* of interfaces, the outcome of every read and of every write.            *)
(***************************************************************************)
EXTENDS Integers, Sequences, FiniteSets, TLC

(***************************** program constants **************************)
VENDOR_ID == 29544
PRODUCT_ID == 20251
USAGE_PAGE == 65376
USAGE == 97

REPORT_SIZE == 32
OLED_WIDTH == 128
OLED_HEIGHT == 64
FRAMEBUFFER_SIZE == (OLED_WIDTH * OLED_HEIGHT) \div 8
\* faulty variant: two bytes reserved besides the payload
PAYLOAD_SIZE_Reserve2 == REPORT_SIZE - 2

PAYLOAD_SIZE == REPORT_SIZE - 1

CMD_START == 1
CMD_DATA == 2
CMD_SCREEN_REQ == 3

SCREENS == <<"render_system_info", "render_gpu_info", "render_io", "render_spotify">>

(********************************* bounds *********************************)
\* transport failures (failed reads and writes) the environment may inject
MaxFaults == 2
\* messages one read_device_state call may obtain before the queue is empty
MaxDrain == 3
\* distinct contents a renderer may draw for one (screen, layer)
NumSeeds == 2
\* resolution of the clock: ticks of monotonic() to the second
TicksPerSecond == 2
\* calls of render_io
MaxIoCalls == 4
\* a float level x is kept as the integer x * Scale, rounded down
Scale == 10000
\* calls of _audio_callback
MaxBlocks == 4
\* calls of render_spotify
MaxFrames == 2

None == <<>>

Min(a, b) == IF a < b THEN a ELSE b

(***************************************************************************)
(* What hid.enumerate(vendor_id, product_id) may return.  Every entry is   *)
(* an interface of the right vendor and product; "opens" tells whether     *)
(* hid.Device(path) succeeds on it.                                        *)
(***************************************************************************)
KeyboardIface == [usage_page |-> 1, usage |-> 6, opens |-> TRUE]
RawIface(o) == [usage_page |-> USAGE_PAGE, usage |-> USAGE, opens |-> o]
Enumerations ==
    { <<>>,
      <<KeyboardIface>>,
      <<KeyboardIface, RawIface(TRUE)>>,
      <<KeyboardIface, RawIface(FALSE)>> }

(***************************************************************************)
(* Inbound messages the device may have queued: the three events of the    *)
(* coalescing example, an event with an out-of-range screen index, a       *)
(* message that is too short and one with another command code.            *)
(***************************************************************************)
Messages ==
    { <<CMD_SCREEN_REQ, 2, 0>>,
      <<CMD_SCREEN_REQ, 0, 1, 0, 0>>,
      <<CMD_SCREEN_REQ, 3, 1>>,
      <<CMD_SCREEN_REQ, 99, 1>>,
      <<CMD_SCREEN_REQ, 2>>,
      <<CMD_DATA, 2, 1>> }

VARIABLES
    pc,              \* position of main()
    interfaces,      \* environment: what hid.enumerate returns
    faults_left,     \* environment: transport failures still to inject
    connected,       \* screen.connected
    handles,         \* device handles opened and not closed
    current_screen,  \* main: current_screen
    current_layer,   \* main: current_layer
    error_printed,   \* main: error_printed
    init_printed,    \* main: init_printed
    stdout,          \* number of lines printed, per text
    latest,          \* read_device_state: latest
    msgs_read,       \* messages the reads of the current call returned
    state,           \* main: state, the value read_device_state returned
    img,             \* main: img, the frame the renderer returned
    pixel_data,      \* send_image: pixel_data
    i,               \* send_image: loop index i
    written,         \* reports the current send_image call has written
    failed,          \* history: the session saw a transport failure
    attempted,       \* history: a connection attempt has been made
    edges,           \* history: transitions into Connected / Disconnected
    expected_screen, \* history: index of the last in-range event
    session_reports, \* history: reports written on this connection, up to 2
    interrupted,     \* history: the last failure was a write inside a frame
    io_samples,      \* render_io: _io_samples
    io_now,          \* render_io: now, in ticks of the clock
    io_counters,     \* environment: the four psutil byte counters
    io_rates,        \* render_io: net_up, net_dn, disk_r, disk_w
    io_history,      \* history: every sample render_io has taken
    audio_available, \* _audio_available: "unset", then "True" or "False"
    audio_bands,     \* _audio_bands
    audio_peak,      \* _audio_peak
    audio_raw,       \* raw of the last callback, None when it returned early
    audio_blocks,    \* callbacks so far
    audio_thread,    \* _audio_thread: "none", "alive" or "dead"
    threads_alive,   \* history: capture threads that are alive
    stale,           \* history: the capture failed and no block came since
    viz_bars,        \* _viz_bars
    viz_heights,     \* render_spotify: h of each bar of the last frame
    viz_source,      \* history: the bands of the last frame: "real", "stale"
                     \* (of an analyzer that has failed) or "synthetic"
    viz_frames       \* render_spotify calls so far

hidVars == <<pc, interfaces, faults_left, connected, handles, current_screen,
             current_layer, error_printed, init_printed, stdout, latest,
             msgs_read, state, img, pixel_data, i, written, failed, attempted,
             edges, expected_screen, session_reports, interrupted>>
ioVars == <<io_samples, io_now, io_counters, io_rates, io_history>>
audioVars == <<audio_available, audio_bands, audio_peak, audio_raw,
               audio_blocks, audio_thread, threads_alive, stale>>
vizVars == <<viz_bars, viz_heights, viz_source, viz_frames>>
rendererVars == <<ioVars, audioVars, vizVars>>

vars == <<hidVars, rendererVars>>

envVars == <<interfaces, faults_left>>
mainVars == <<current_screen, current_layer, error_printed, init_printed>>
readVars == <<latest, msgs_read, state>>
sendVars == <<img, pixel_data, i, written>>
histVars == <<failed, attempted, edges, expected_screen>>
sessVars == <<session_reports, interrupted>>

(******************************* connect **********************************)
\* connect(): the interfaces with the usage page and usage of the raw HID
RawHid(ifs) ==
    SelectSeq(ifs, LAMBDA x : x.usage_page = USAGE_PAGE /\ x.usage = USAGE)

\* connect() returns normally (TRUE) or raises DeviceNotConnected (FALSE)
ConnectSucceeds(ifs) ==
    /\ RawHid(ifs) # <<>>
    /\ RawHid(ifs)[1].opens

(****************************** send_image ********************************)
\* img.resize(...).convert("1").tobytes("raw", "1"): always 1024 bytes
Pixels(im) ==
    [k \in 1..FRAMEBUFFER_SIZE |->
        ((k - 1) * (im.seed + 1) + 64 * im.screen + 8 * im.layer) % 256]

\* faulty variant: the slice stops one byte early
Chunk_OffByOne(pd, off) ==
    SubSeq(pd, off + 1, Min(off + PAYLOAD_SIZE, Len(pd)) - 1)

\* pixel_data[i:i + PAYLOAD_SIZE]
Chunk(pd, off) == SubSeq(pd, off + 1, Min(off + PAYLOAD_SIZE, Len(pd)))

\* faulty variant: the two command codes swapped
CommandFor_Swapped(off) == IF off = 0 THEN CMD_DATA ELSE CMD_START

\* CMD_START if i == 0 else CMD_DATA
CommandFor(off) == IF off = 0 THEN CMD_START ELSE CMD_DATA

\* faulty variant: a buffer of REPORT_SIZE bytes, the payload cut to fit
Report_Short(pd, off) ==
    [k \in 1..REPORT_SIZE |->
        IF k = 1 THEN 0
        ELSE IF k = 2 THEN CommandFor(off)
        ELSE IF k - 2 <= Len(Chunk(pd, off)) THEN Chunk(pd, off)[k - 2]
        ELSE 0]

\* the report send_image builds for offset off
Report(pd, off) ==
    LET chunk == Chunk(pd, off)
    IN  [k \in 1..(REPORT_SIZE + 1) |->
            IF k = 1 THEN 0
            ELSE IF k = 2 THEN CommandFor(off)
            ELSE IF k - 2 <= Len(chunk) THEN chunk[k - 2]
            ELSE 0]

(*************************** read_device_state ****************************)
\* len(data) >= 3 and data[0] == CMD_SCREEN_REQ
IsValid(data) == Len(data) >= 3 /\ data[1] = CMD_SCREEN_REQ

\* faulty variant: an invalid message discards the event read before it
Decode_DropsOnInvalid(prev, data) ==
    IF IsValid(data) THEN <<data[2], data[3]>> ELSE None

\* latest after the read returned data
Decode(prev, data) == IF IsValid(data) THEN <<data[2], data[3]>> ELSE prev

(********************************* main ***********************************)
\* faulty variant: the index is taken without the range check
SelectScreen_NoRangeCheck(cur, st) == IF st # None THEN st[1] ELSE cur

\* if 0 <= idx < len(SCREENS): current_screen = idx
SelectScreen(cur, st) ==
    IF st # None /\ 0 <= st[1] /\ st[1] < Len(SCREENS) THEN st[1] ELSE cur

\* faulty variant: the layer is taken only from an event with a valid index
SelectLayer_InRangeOnly(cur, st) ==
    IF st # None /\ st[1] < Len(SCREENS) THEN st[2] ELSE cur

\* current_layer = layer, whenever an event arrived
SelectLayer(cur, st) == IF st # None THEN st[2] ELSE cur

Printed(text) == [stdout EXCEPT ![text] = @ + 1]

(***************************** _audio_callback *****************************)
NumBands == 16
VIZ_H == 12

\* 0.001, the initial value and the floor of _audio_peak
PeakFloor == Scale \div 1000

Max(a, b) == IF a >= b THEN a ELSE b

\* raw: the same magnitude in every band, or in the first band only
Flat(v) == [b \in 1..NumBands |-> v]
Single(v) == [b \in 1..NumBands |-> IF b = 1 THEN v ELSE 0]

\* the band magnitudes of one block: silence, 0.0011, 0.999, 1.0, and 2.0
\* in one band
RawBlocks == { Flat(0), Flat((11 * Scale) \div 10000),
               Flat((999 * Scale) \div 1000), Flat(Scale), Single(2 * Scale) }

RECURSIVE MaxUpTo(_, _)
MaxUpTo(raw, n) == IF n = 0 THEN 0 ELSE Max(raw[n], MaxUpTo(raw, n - 1))

\* peak = max(raw) if raw else 0.0
BlockMax(raw) == MaxUpTo(raw, Len(raw))

\* x * 0.995
Decayed(x) == (x * 995) \div 1000

\* _audio_peak = peak if peak > _audio_peak else _audio_peak * 0.995
\* _audio_peak = max(_audio_peak, 0.001)
PeakUpdate(peak, old) ==
    Max(IF peak > old THEN peak ELSE Decayed(old), PeakFloor)

\* faulty variant: the quotient is not clamped
Level_Unclamped(value, peak) == (value * Scale) \div peak

\* level = min(1.0, raw[i] / _audio_peak)
Level(value, peak) == Min(Scale, (value * Scale) \div peak)

\* instant rise, gradual fall
Smooth(band, level) ==
    IF level > band THEN level ELSE (band * 3 + level) \div 4

\* the bar height drawn for a band level or for a synthetic bar
BarHeight(x) == Max(1, x \div Scale)

(******************************* render_io ********************************)
(* monotonic() is modelled in ticks, TicksPerSecond to the second; a rate  *)
(* is the exact quotient num / den in bytes per second.                    *)
IO_WINDOW == 1
WindowTicks == IO_WINDOW * TicksPerSecond

\* how far the clock may move between two calls: not at all, ..., past the window
Advances == 0..(WindowTicks + 1)

\* what the counters (sent, recv, read, write) may gain between two calls
CounterSteps == { <<0, 0, 0, 0>>, <<1000, 2000, 4096, 500>> }

ZeroRate == [num |-> 0, den |-> 1]

\* (value - oldest value) / dt, with dt in ticks
Rate(diff, dt) == [num |-> diff * TicksPerSecond, den |-> dt]

RECURSIVE Trim_Inclusive(_, _)
\* faulty variant: a sample exactly one window old is dropped too
Trim_Inclusive(samples, cutoff) ==
    IF samples # <<>> /\ samples[1][1] <= cutoff
    THEN Trim_Inclusive(Tail(samples), cutoff) ELSE samples

RECURSIVE TrimLoop(_, _)
\* while _io_samples and _io_samples[0][0] < cutoff: _io_samples.pop(0)
TrimLoop(samples, cutoff) ==
    IF samples # <<>> /\ samples[1][1] < cutoff
    THEN TrimLoop(Tail(samples), cutoff) ELSE samples

Trim(samples, cutoff) == TrimLoop(samples, cutoff)

\* the four rates render_io shows, from the trimmed samples
Rates(samples, now, cur) ==
    IF Len(samples) >= 2
    THEN LET oldest == samples[1]
             dt == now - oldest[1]
         IN  IF dt > 0
             THEN [k \in 1..4 |-> Rate(cur[k] - oldest[k + 1], dt)]
             ELSE <<ZeroRate, ZeroRate, ZeroRate, ZeroRate>>
    ELSE <<ZeroRate, ZeroRate, ZeroRate, ZeroRate>>

Init ==
    /\ pc = "with"
    /\ interfaces \in Enumerations
    /\ faults_left = MaxFaults
    /\ connected = FALSE
    /\ handles = 0
    /\ current_screen = 0
    /\ current_layer = 0
    /\ error_printed = FALSE
    /\ init_printed = FALSE
    /\ stdout = [t \in {"connected", "disconnected", "not_connected"} |-> 0]
    /\ latest = None
    /\ msgs_read = <<>>
    /\ state = None
    /\ img = None
    /\ pixel_data = <<>>
    /\ i = 0
    /\ written = <<>>
    /\ failed = FALSE
    /\ attempted = FALSE
    /\ edges = [t \in {"connected", "disconnected"} |-> 0]
    /\ expected_screen = 0
    /\ session_reports = 0
    /\ interrupted = FALSE
    /\ io_samples = <<>>
    /\ io_now = 0
    /\ io_counters = <<0, 0, 0, 0>>
    /\ io_rates = <<ZeroRate, ZeroRate, ZeroRate, ZeroRate>>
    /\ io_history = <<>>
    /\ audio_available = "unset"
    /\ audio_bands = [b \in 1..NumBands |-> 0]
    /\ audio_peak = PeakFloor
    /\ audio_raw = None
    /\ audio_blocks = 0
    /\ audio_thread = "none"
    /\ threads_alive = 0
    /\ stale = FALSE
    /\ viz_bars = [b \in 1..NumBands |-> 0]
    /\ viz_heights = [b \in 1..NumBands |-> 0]
    /\ viz_source = "none"
    /\ viz_frames = 0


\* faulty variant: __enter__ lets DeviceNotConnected escape, which ends main()
Enter_Propagates ==
    /\ pc = "with"
    /\ LET ok == ConnectSucceeds(interfaces)
       IN  /\ connected' = ok
           /\ handles' = IF ok THEN handles + 1 ELSE handles
           /\ edges' =
                IF ok THEN [edges EXCEPT !["connected"] = @ + 1]
                ELSE IF ~attempted THEN [edges EXCEPT !["disconnected"] = @ + 1]
                ELSE edges
           /\ pc' = IF ok THEN "check" ELSE "raised"
    /\ failed' = FALSE
    /\ attempted' = TRUE
    /\ session_reports' = 0
    /\ interrupted' = interrupted
    /\ UNCHANGED <<rendererVars, envVars, mainVars, stdout, readVars, sendVars, expected_screen>>

(***************************************************************************)
(* with HIDPixelScreen(...) as screen: the constructor clears connected,   *)
(* __enter__ calls connect() and swallows DeviceNotConnected.              *)
(***************************************************************************)
Enter ==
    /\ pc = "with"
    /\ LET ok == ConnectSucceeds(interfaces)
       IN  /\ connected' = ok
           /\ handles' = IF ok THEN handles + 1 ELSE handles
           /\ edges' =
                IF ok THEN [edges EXCEPT !["connected"] = @ + 1]
                ELSE IF ~attempted THEN [edges EXCEPT !["disconnected"] = @ + 1]
                ELSE edges
    /\ failed' = FALSE
    /\ attempted' = TRUE
    /\ pc' = "check"
    /\ session_reports' = 0
    /\ interrupted' = interrupted
    /\ UNCHANGED <<rendererVars, envVars, mainVars, stdout, readVars, sendVars, expected_screen>>

\* lines of "Device connected" printed on a successful connection
ConnectedLines(ep, ip) == (IF ep THEN 1 ELSE 0) + (IF ~ip THEN 1 ELSE 0)

\* faulty variant: every failed attempt prints
NotConnectedLines_Always(ep) == 1

\* lines of "Device not connected" printed on a failed attempt
NotConnectedLines(ep) == IF ~ep THEN 1 ELSE 0

\* if screen.connected: ... else: ...
Check ==
    /\ pc = "check"
    /\ IF connected
       THEN /\ stdout' = [stdout EXCEPT !["connected"] =
                              @ + ConnectedLines(error_printed, init_printed)]
            /\ error_printed' = FALSE
            /\ init_printed' = TRUE
            /\ pc' = "while"
       ELSE /\ stdout' = [stdout EXCEPT !["not_connected"] =
                              @ + NotConnectedLines(error_printed)]
            /\ error_printed' = TRUE
            /\ init_printed' = init_printed
            /\ pc' = "exit"
    /\ UNCHANGED <<rendererVars, sessVars, envVars, connected, handles, current_screen, current_layer,
                   readVars, sendVars, histVars>>

\* while screen.connected: enter read_device_state, or leave the loop
While ==
    /\ pc = "while"
    /\ IF connected
       THEN /\ pc' = "read"
            /\ UNCHANGED <<stdout, error_printed>>
       ELSE /\ stdout' = Printed("disconnected")
            /\ error_printed' = TRUE
            /\ pc' = "exit"
    /\ latest' = None
    /\ msgs_read' = <<>>
    /\ UNCHANGED <<rendererVars, sessVars, envVars, connected, handles, current_screen, current_layer,
                   init_printed, state, sendVars, histVars>>

(***************************************************************************)
(* read_device_state: the first read blocks up to the timeout, the         *)
(* following reads return at once.  The environment decides what a read    *)
(* returns: a queued message, nothing, or a HIDException.                  *)
(***************************************************************************)
ReadFirst ==
    /\ pc = "read"
    /\ Len(msgs_read) < MaxDrain
    /\ \E data \in Messages :
         /\ latest' = Decode(latest, data)
         /\ msgs_read' = Append(msgs_read, data)
    /\ pc' = "drain"
    /\ UNCHANGED <<rendererVars, sessVars, envVars, connected, handles, mainVars, stdout, state,
                   sendVars, histVars>>

ReadTimeout ==
    /\ pc = "read"
    /\ pc' = "drain"
    /\ UNCHANGED <<rendererVars, sessVars, envVars, connected, handles, mainVars, stdout, readVars,
                   sendVars, histVars>>

DrainMsg ==
    /\ pc = "drain"
    /\ Len(msgs_read) < MaxDrain
    /\ \E data \in Messages :
         /\ latest' = Decode(latest, data)
         /\ msgs_read' = Append(msgs_read, data)
    /\ pc' = "drain"
    /\ UNCHANGED <<rendererVars, sessVars, envVars, connected, handles, mainVars, stdout, state,
                   sendVars, histVars>>

\* if not data: break; return latest
DrainEmpty ==
    /\ pc = "drain"
    /\ state' = latest
    /\ pc' = "apply"
    /\ UNCHANGED <<rendererVars, sessVars, envVars, connected, handles, mainVars, stdout, latest,
                   msgs_read, sendVars, histVars>>

\* except hid.HIDException: self.connected = False; return latest
ReadFail ==
    /\ pc \in {"read", "drain"}
    /\ faults_left > 0
    /\ faults_left' = faults_left - 1
    /\ connected' = FALSE
    /\ state' = latest
    /\ failed' = TRUE
    /\ edges' = [edges EXCEPT !["disconnected"] = @ + 1]
    /\ pc' = "apply"
    /\ interrupted' = FALSE
    /\ session_reports' = session_reports
    /\ UNCHANGED <<rendererVars, interfaces, handles, mainVars, stdout, latest, msgs_read,
                   sendVars, attempted, expected_screen>>

(***************************************************************************)
(* main, lines 628-634: apply the event and call the renderer.  The        *)
(* renderer's drawing is a choice of seed.                                 *)
(***************************************************************************)
Apply ==
    /\ pc = "apply"
    /\ current_screen' = SelectScreen(current_screen, state)
    /\ current_layer' = SelectLayer(current_layer, state)
    /\ expected_screen' =
         IF state # None /\ state[1] \in 0..(Len(SCREENS) - 1)
         THEN state[1] ELSE expected_screen
    /\ \E seed \in 0..(NumSeeds - 1) :
         img' = [screen |-> current_screen', layer |-> current_layer',
                 seed |-> seed]
    /\ state' = None
    /\ latest' = None
    /\ msgs_read' = <<>>
    /\ pc' = "send_image"
    /\ UNCHANGED <<rendererVars, sessVars, envVars, connected, handles, error_printed, init_printed,
                   stdout, pixel_data, i, written, failed, attempted, edges>>

\* faulty variant: after an interrupted frame the next session goes on with
\* the following chunk instead of starting a frame
SendImage_Resumes ==
    /\ pc = "send_image"
    /\ IF ~connected
       THEN /\ pc' = "while"
            /\ img' = None
            /\ UNCHANGED <<pixel_data, i, written>>
       ELSE /\ pixel_data' = Pixels(img)
            /\ i' = IF interrupted /\ session_reports = 0
                    THEN PAYLOAD_SIZE ELSE 0
            /\ written' = <<>>
            /\ img' = img
            /\ pc' = "write"
    /\ UNCHANGED <<rendererVars, sessVars, envVars, connected, handles, mainVars, stdout,
                   readVars, histVars>>

\* send_image: return at once when not connected, else convert the image
SendImage ==
    /\ pc = "send_image"
    /\ IF ~connected
       THEN /\ pc' = "while"
            /\ img' = None
            /\ UNCHANGED <<pixel_data, i, written>>
       ELSE /\ pixel_data' = Pixels(img)
            /\ i' = 0
            /\ written' = <<>>
            /\ img' = img
            /\ pc' = "write"
    /\ UNCHANGED <<rendererVars, sessVars, envVars, connected, handles, mainVars, stdout, readVars,
                   histVars>>

\* one iteration of the for loop whose write succeeds
WriteOk ==
    /\ pc = "write"
    /\ i < FRAMEBUFFER_SIZE
    /\ written' = Append(written, Report(pixel_data, i))
    /\ i' = i + PAYLOAD_SIZE
    /\ pc' = IF i' < FRAMEBUFFER_SIZE THEN "write" ELSE "sent"
    /\ session_reports' = Min(session_reports + 1, 2)
    /\ interrupted' = interrupted
    /\ UNCHANGED <<rendererVars, envVars, connected, handles, mainVars, stdout, readVars,
                   img, pixel_data, histVars>>

\* faulty variant: the failed write does not leave the loop
WriteFail_NoBreak ==
    /\ pc = "write"
    /\ i < FRAMEBUFFER_SIZE
    /\ faults_left > 0
    /\ faults_left' = faults_left - 1
    /\ connected' = FALSE
    /\ failed' = TRUE
    /\ edges' = [edges EXCEPT !["disconnected"] = @ + 1]
    /\ i' = i + PAYLOAD_SIZE
    /\ pc' = IF i' < FRAMEBUFFER_SIZE THEN "write" ELSE "sent"
    /\ interrupted' = (Len(written) > 0)
    /\ session_reports' = session_reports
    /\ UNCHANGED <<rendererVars, interfaces, handles, mainVars, stdout, readVars, img,
                   pixel_data, written, attempted, expected_screen>>

\* except hid.HIDException: self.connected = False; break
WriteFail ==
    /\ pc = "write"
    /\ i < FRAMEBUFFER_SIZE
    /\ faults_left > 0
    /\ faults_left' = faults_left - 1
    /\ connected' = FALSE
    /\ failed' = TRUE
    /\ edges' = [edges EXCEPT !["disconnected"] = @ + 1]
    /\ pc' = "sent"
    /\ interrupted' = (Len(written) > 0)
    /\ session_reports' = session_reports
    /\ UNCHANGED <<rendererVars, interfaces, handles, mainVars, stdout, readVars, sendVars,
                   attempted, expected_screen>>

\* send_image returns; its locals and the frame are dropped
Return ==
    /\ pc = "sent"
    /\ img' = None
    /\ pixel_data' = <<>>
    /\ i' = 0
    /\ written' = <<>>
    /\ pc' = "while"
    /\ UNCHANGED <<rendererVars, sessVars, envVars, connected, handles, mainVars, stdout, readVars,
                   histVars>>

\* __exit__: if self.connected: self.interface.close()
Exit ==
    /\ pc = "exit"
    /\ handles' = IF connected THEN handles - 1 ELSE handles
    /\ pc' = "sleep"
    /\ UNCHANGED <<rendererVars, sessVars, envVars, connected, mainVars, stdout, readVars, sendVars,
                   histVars>>

\* sleep(1)
Sleep ==
    /\ pc = "sleep"
    /\ pc' = "with"
    /\ UNCHANGED <<rendererVars, sessVars, envVars, connected, handles, mainVars, stdout, readVars,
                   sendVars, histVars>>

\* environment: the device is plugged, unplugged or taken by another program,
\* which changes what the next hid.enumerate returns.  Nothing reads the
\* enumeration while a session is connected, so a change made during a
\* session is taken when the session has lost its connection.
Replug ==
    /\ ~connected
    /\ \E e \in Enumerations \ {interfaces} : interfaces' = e
    /\ UNCHANGED <<rendererVars, sessVars, pc, faults_left, connected, handles, mainVars, stdout,
                   readVars, sendVars, histVars>>

Main ==
    \/ Enter \/ Check \/ While
    \/ ReadFirst \/ ReadTimeout \/ DrainMsg \/ DrainEmpty \/ ReadFail
    \/ Apply \/ SendImage \/ WriteOk \/ WriteFail \/ Return
    \/ Exit \/ Sleep

Next == Main \/ Replug

Spec == Init /\ [][Next]_vars

(***************************************************************************)
(* render_io, called on its own: the clock and the counters move, then the *)
(* whole body of render_io runs on the values it reads.                    *)
(***************************************************************************)
RenderIo ==
    /\ Len(io_history) < MaxIoCalls
    /\ \E adv \in Advances, step \in CounterSteps :
         LET now == io_now + adv
             cur == [k \in 1..4 |-> io_counters[k] + step[k]]
             sample == <<now, cur[1], cur[2], cur[3], cur[4]>>
             kept == Trim(Append(io_samples, sample), now - WindowTicks)
         IN  /\ io_now' = now
             /\ io_counters' = cur
             /\ io_samples' = kept
             /\ io_rates' = Rates(kept, now, cur)
             /\ io_history' = Append(io_history, sample)
    /\ UNCHANGED <<hidVars, audioVars, vizVars>>

NextIo == RenderIo

SpecIo == Init /\ [][NextIo]_vars

(***************************************************************************)
(* The analyzer and the visualizer of render_spotify.  The callback runs   *)
(* in the capture thread, render_spotify in the main thread.               *)
(***************************************************************************)

\* try: import numpy, sounddevice
ImportAudio ==
    /\ audio_available = "unset"
    /\ \E imported \in {"True", "False"} : audio_available' = imported
    /\ UNCHANGED <<hidVars, ioVars, vizVars, audio_bands, audio_peak,
                   audio_raw, audio_blocks, audio_thread, threads_alive,
                   stale>>

\* faulty variant: a thread is started whether or not one is alive
StartAudioCapture_NoAliveCheck ==
    /\ audio_thread' = "alive"
    /\ threads_alive' = threads_alive + 1

\* _start_audio_capture
StartAudioCapture ==
    IF audio_thread = "alive"
    THEN UNCHANGED <<audio_thread, threads_alive>>
    ELSE /\ audio_thread' = "alive"
         /\ threads_alive' = threads_alive + 1

\* opening or running the input stream raises: run() swallows it and ends
CaptureFails ==
    /\ audio_thread = "alive"
    /\ audio_thread' = "dead"
    /\ threads_alive' = threads_alive - 1
    /\ stale' = TRUE
    /\ UNCHANGED <<hidVars, ioVars, vizVars, audio_available, audio_bands,
                   audio_peak, audio_raw, audio_blocks>>

\* _audio_callback, for one block of the stream
AudioCallback ==
    /\ audio_thread = "alive"
    /\ audio_blocks < MaxBlocks
    /\ audio_blocks' = audio_blocks + 1
    /\ \E status \in BOOLEAN, raw \in RawBlocks :
         IF status
         THEN /\ audio_raw' = None
              /\ UNCHANGED <<audio_bands, audio_peak, stale>>
         ELSE LET peak == PeakUpdate(BlockMax(raw), audio_peak)
              IN  /\ audio_raw' = raw
                  /\ audio_peak' = peak
                  /\ audio_bands' =
                       [b \in 1..NumBands |->
                          Smooth(audio_bands[b], Level(raw[b], peak))]
                  /\ stale' = FALSE
    /\ UNCHANGED <<hidVars, ioVars, vizVars, audio_available, audio_thread,
                   threads_alive>>

\* render_spotify with nothing playing: "NOT PLAYING", the bars are reset
RenderNotPlaying ==
    /\ audio_available # "unset"
    /\ viz_frames < MaxFrames
    /\ viz_frames' = viz_frames + 1
    /\ viz_bars' = [b \in 1..NumBands |-> 0]
    /\ viz_heights' = [b \in 1..NumBands |-> 0]
    /\ viz_source' = "none"
    /\ UNCHANGED <<hidVars, ioVars, audioVars>>

\* render_spotify, the visualizer drawn from the analyzer's bands
RenderReal ==
    /\ audio_available = "True"
    /\ viz_frames < MaxFrames
    /\ viz_frames' = viz_frames + 1
    /\ StartAudioCapture
    /\ viz_heights' = [b \in 1..NumBands |->
                         Max(1, (audio_bands[b] * VIZ_H) \div Scale)]
    /\ viz_source' = IF stale THEN "stale" ELSE "real"
    /\ UNCHANGED <<hidVars, ioVars, viz_bars, audio_available, audio_bands,
                   audio_peak, audio_raw, audio_blocks, stale>>

\* render_spotify, the visualizer drawn from the synthetic bars
RenderSynthetic ==
    /\ audio_available = "False"
    /\ viz_frames < MaxFrames
    /\ viz_frames' = viz_frames + 1
    /\ \E playing \in BOOLEAN, target \in {2 * Scale, VIZ_H * Scale} :
         viz_bars' = [b \in 1..NumBands |->
                        IF playing
                        THEN viz_bars[b] + (target - viz_bars[b]) \div 2
                        ELSE Max(Scale, (viz_bars[b] * 8) \div 10)]
    /\ viz_heights' = [b \in 1..NumBands |-> BarHeight(viz_bars'[b])]
    /\ viz_source' = "synthetic"
    /\ UNCHANGED <<hidVars, ioVars, audioVars>>

NextAudio ==
    \/ ImportAudio
    \/ CaptureFails
    \/ AudioCallback
    \/ RenderNotPlaying
    \/ RenderReal
    \/ RenderSynthetic

SpecAudio == Init /\ [][NextAudio]_vars

\* the interpreter keeps running main(): every step of it is eventually taken
FairSpec == Spec /\ WF_vars(Main)


(***************************************************************************)
(*                              Properties                                 *)
(***************************************************************************)

\* send_image ran to the end of its loop without a failed write
FrameComplete == pc = "sent" /\ ~failed

\* the payload bytes report k of a frame covers, as the receiver counts them
ChunkLen(k) ==
    Min(PAYLOAD_SIZE, FRAMEBUFFER_SIZE - (k - 1) * PAYLOAD_SIZE)

RECURSIVE Received(_)
\* the payload of the first k reports written, in the order written
Received(k) ==
    IF k = 0 THEN <<>>
    ELSE Received(k - 1) \o SubSeq(written[k], 3, 2 + ChunkLen(k))

\* C1 as stated: a complete frame is 35 reports of at most 30 payload bytes
\* (32-byte reports), the last one carrying 4 bytes and zeros after them.
C1_Original ==
    FrameComplete =>
        /\ Len(written) = 35
        /\ \A k \in 1..Len(written) : Len(written[k]) - 2 <= 30
        /\ \A j \in 1..4 :
             written[Len(written)][2 + j] = pixel_data[30 * 34 + j]
        /\ \A j \in 7..Len(written[Len(written)]) :
             written[Len(written)][j] = 0

\* C1 (amended): a complete frame is exactly ceil(1024/31) = 34 reports, each
\* with room for at most 31 payload bytes, and the last report carries exactly
\* 1024 - 31*33 = 1 payload byte, the last byte of the bitmap, then zeros.
C1_ReportCount ==
    FrameComplete =>
        /\ Len(pixel_data) = 1024
        /\ Len(written) = 34
        /\ \A k \in 1..Len(written) : Len(written[k]) - 2 <= 31
        /\ written[34][3] = pixel_data[1024]
        /\ \A j \in 4..Len(written[34]) : written[34][j] = 0

C1_Witness == FrameComplete /\ Len(written) = 34 /\ written[34][3] # 0

\* C2: in every send_image call the first report written carries START and
\* every later report of the call carries DATA.
C2_StartThenData ==
    \A k \in 1..Len(written) :
        written[k][2] = (IF k = 1 THEN 1 ELSE 2)

C2_Witness == FrameComplete /\ Len(written) > 1 /\ connected

\* C3: the payloads of the reports written so far, concatenated in the order
\* written, are the bitmap's prefix of that length; for a complete frame they
\* are the whole 1024-byte bitmap.
C3_Concat ==
    pc \in {"write", "sent"} =>
        /\ Received(Len(written)) =
             SubSeq(pixel_data, 1, Min(31 * Len(written), 1024))
        /\ FrameComplete => Received(Len(written)) = pixel_data

C3_Witness ==
    /\ FrameComplete
    /\ Len(Received(Len(written))) = 1024
    /\ \E k \in 1..1024 : pixel_data[k] # 0

\* C4 as stated: every report handed to write is 32 bytes long.
C4_Original ==
    \A k \in 1..Len(written) :
        /\ Len(written[k]) = 32
        /\ written[k][1] = 0
        /\ written[k][2] \in {1, 2}

\* C4 (amended): every report handed to write is 33 bytes long: byte 0 is the
\* report identifier 0x00, byte 1 the command code, bytes 2..32 hold up to 31
\* payload bytes, and all bytes after the payload are zero.
C4_ReportFormat ==
    \A k \in 1..Len(written) :
        /\ Len(written[k]) = 33
        /\ written[k][1] = 0
        /\ written[k][2] \in {1, 2}
        /\ \A j \in 1..31 :
             written[k][2 + j] =
                IF 31 * (k - 1) + j <= 1024
                THEN pixel_data[31 * (k - 1) + j] ELSE 0

C4_Witness ==
    /\ FrameComplete
    /\ Len(written) = 34
    /\ \A j \in 4..33 : written[34][j] = 0
    /\ \E j \in 3..33 : written[33][j] # 0

RECURSIVE LastValid(_)
\* the (screen, layer) of the last message of ms that is at least 3 bytes long
\* and starts with SCREEN_REQ (0x03); None when there is none
LastValid(ms) ==
    IF ms = <<>> THEN None
    ELSE LET m == ms[Len(ms)]
         IN  IF Len(m) >= 3 /\ m[1] = 3 THEN <<m[2], m[3]>>
             ELSE LastValid(SubSeq(ms, 1, Len(ms) - 1))

\* C5: read_device_state returns the (screen, layer) of the last valid message
\* among all messages its reads obtained, and none when no valid one was read.
C5_LastValid ==
    /\ pc \in {"read", "drain"} => latest = LastValid(msgs_read)
    /\ pc = "apply" => state = LastValid(msgs_read)

C5_Witness ==
    /\ pc = "apply"
    /\ connected
    /\ msgs_read = << <<3, 2, 0>>, <<3, 0, 1, 0, 0>>, <<3, 3, 1>> >>
    /\ state = <<3, 1>>

\* C6 as stated: outside the step between connecting and announcing, the
\* "Device connected" lines printed equal the transitions into Connected.
C6_OneConnectedPerEdge ==
    pc # "check" => stdout["connected"] = edges["connected"]

DisconnectedNotes == stdout["disconnected"] + stdout["not_connected"]

\* C7: every transition into Disconnected (a failed first attempt, or the loss
\* of a connection) is announced by exactly one line, and no line is printed
\* without one: the count of lines never exceeds the count of transitions,
\* lags it by at most one, and equals it whenever a session has ended.
C7_OneDisconnectedPerEdge ==
    /\ DisconnectedNotes <= edges["disconnected"]
    /\ edges["disconnected"] <= DisconnectedNotes + 1
    /\ pc \in {"exit", "sleep", "with"} =>
         DisconnectedNotes = edges["disconnected"]

\* a failed attempt after a lost connection, which printed nothing
C7_Witness ==
    /\ pc = "exit"
    /\ ~failed
    /\ stdout["not_connected"] = 0
    /\ stdout["disconnected"] = 1
    /\ edges["disconnected"] = 1

\* C8: current_screen is always a valid index into SCREENS, it is the index of
\* the most recent event with an in-range index (0 if none), and every frame
\* was rendered by that renderer.
C8_ScreenSelection ==
    /\ current_screen \in 0..3
    /\ pc # "apply" => current_screen = expected_screen
    /\ img # None => img.screen = expected_screen

\* screen 2 kept by an event (99, 1), which only changed the layer
C8_Witness ==
    /\ img # None
    /\ img.screen = 2
    /\ img.layer = 1
    /\ pc = "write"

\* C9: once a read or a write has failed, the session is not connected, no
\* report is written and no message is read any more, and main() is on its
\* way out of the session: to the end of the loop, __exit__ and the sleep.
C9_AfterFailure ==
    [][ /\ failed' =>
            /\ ~connected'
            /\ pc' \in {"apply", "send_image", "sent", "while", "exit",
                        "sleep", "with"}
        /\ failed /\ failed' =>
            /\ Len(written') <= Len(written)
            /\ Len(msgs_read') <= Len(msgs_read)
      ]_vars

\* a write failed in the middle of a frame
C9_Witness ==
    /\ failed
    /\ pc = "sent"
    /\ Len(written) > 0
    /\ Len(written) < 34

\* a matching interface is enumerated and opening it succeeds
DeviceReady ==
    \E k \in 1..Len(interfaces) :
        /\ interfaces[k].usage_page = USAGE_PAGE
        /\ interfaces[k].usage = USAGE
        /\ interfaces[k].opens

\* C10: a failed connection attempt never ends main(), and the loop keeps
\* trying: it never stays unconnected for ever while the device is ready.
C10_Reconnects ==
    /\ [](pc # "raised")
    /\ []<>(~DeviceReady \/ connected)

\* connected after a failed attempt
C10_Witness ==
    /\ connected
    /\ stdout["not_connected"] = 1
    /\ pc = "while"


\* C15: when the poll returns an event, current_layer becomes the event's
\* layer, also when the event's screen index is out of range and the screen
\* selection is kept; when the poll returns nothing, current_screen and
\* current_layer are both unchanged.
C15_LayerFollowsEvent ==
    [][ (pc = "apply" /\ pc' = "send_image") =>
          /\ state # None => current_layer' = state[2]
          /\ (state # None /\ state[1] \notin 0..3) =>
                current_screen' = current_screen
          /\ state = None =>
                /\ current_screen' = current_screen
                /\ current_layer' = current_layer
      ]_vars

\* the event (99, 1) arrived while screen 2 was selected
C15_Witness ==
    /\ pc = "send_image"
    /\ connected
    /\ current_screen = 2
    /\ current_layer = 1

\* C18 as stated: a handle opened by connect is closed when its session ends,
\* so at most one handle is open at any time and none between two sessions.
C18_AtMostOneHandle ==
    /\ handles <= 1
    /\ pc \in {"sleep", "with"} => handles = 0


\* C16: the first report written after every successful connection carries
\* START and the first bytes of a fresh frame, also when the previous session
\* ended with a failed write in the middle of a frame.
C16_FreshFrameAfterConnect ==
    [][ (Len(written') = Len(written) + 1 /\ session_reports = 0) =>
          /\ Len(written) = 0
          /\ i = 0
          /\ written'[1][2] = 1
          /\ written'[1][3] = pixel_data[1]
      ]_vars

\* the first report of a session that follows an interrupted frame
C16_Witness ==
    /\ interrupted
    /\ connected
    /\ session_reports = 1
    /\ Len(written) = 1
    /\ written[1][2] = 1


\* the samples of the history taken at or after the time t, in their order
SamplesSince(t) == SelectSeq(io_history, LAMBDA s : s[1] >= t)

\* C11: after each render_io call the sample list holds exactly the samples
\* taken within the last window (1.0 s), in time order, and each rate is
\* (latest value - oldest kept value) / (now - oldest kept timestamp), or 0
\* when that time is zero or a single sample is kept.
C11_WindowedRate ==
    io_history # <<>> =>
        /\ io_samples = SamplesSince(io_now - 1 * TicksPerSecond)
        /\ \A a, b \in 1..Len(io_samples) :
             a < b => io_samples[a][1] <= io_samples[b][1]
        /\ LET oldest == io_samples[1]
               newest == io_samples[Len(io_samples)]
               elapsed == io_now - oldest[1]
           IN  \A k \in 1..4 :
                 /\ io_rates[k].den > 0
                 /\ IF elapsed = 0 \/ Len(io_samples) = 1
                    THEN io_rates[k].num = 0
                    ELSE io_rates[k].num * elapsed =
                           (newest[k + 1] - oldest[k + 1]) * TicksPerSecond
                               * io_rates[k].den

\* recv_bytes 0 at t = 0.0 and 2000 at t = 1.0: 2000 bytes per second
C11_Witness ==
    /\ io_samples = << <<0, 0, 0, 0, 0>>,
                       <<TicksPerSecond, 1000, 2000, 4096, 500>> >>
    /\ io_rates[2].num = 2000 * io_rates[2].den


\* C12: after any sequence of _audio_callback blocks with non-negative band
\* magnitudes, silence sustained over many blocks included, each of the 16
\* band levels lies in [0, 1] and the running peak is at least 0.001.
C12_BandsInRange ==
    /\ \A b \in 1..16 : audio_bands[b] >= 0 /\ audio_bands[b] <= Scale
    /\ audio_peak >= Scale \div 1000

\* three blocks, the last two silent: the peak rests on its floor and the
\* bands are falling from 1
C12_Witness ==
    /\ audio_blocks >= 3
    /\ audio_raw = Flat(0)
    /\ audio_peak = Scale \div 1000
    /\ audio_bands[1] > 0 /\ audio_bands[1] < Scale


\* C13: when the capture stream fails, the frames that follow are drawn from
\* the synthetic bands, never from the band snapshot the failed analyzer
\* left behind.
C13_FallsBackToSynthetic == viz_source # "stale"


\* C14: starting the analyzer is idempotent: a call of _start_audio_capture
\* while a capture thread is alive starts no thread, and at most one capture
\* thread is alive in any state.
C14_StartIdempotent ==
    [][ /\ threads_alive' <= 1
        /\ (viz_frames' # viz_frames /\ audio_thread = "alive") =>
              /\ threads_alive' = threads_alive
              /\ audio_thread' = "alive" ]_vars

\* the second frame drew bands a callback had written: the thread started by
\* the first frame was alive when the second called _start_audio_capture
C14_Witness ==
    /\ viz_frames = 2
    /\ viz_source = "real"
    /\ viz_heights[1] > 1
    /\ threads_alive = 1


\* C17: on every processed block the peak becomes
\* max(peak * 0.995, block maximum, 0.001), so that it is at least the block
\* maximum whenever that is at least peak * 0.995.
C17_Original ==
    [][ (audio_blocks' # audio_blocks /\ audio_raw' # None) =>
          LET m == BlockMax(audio_raw')
              decayed == (audio_peak * 995) \div 1000
          IN  /\ audio_peak' = Max(Max(decayed, m), Scale \div 1000)
              /\ m >= decayed => audio_peak' >= m ]_vars

\* a block whose maximum, 0.999, lies between 0.995 of the peak 1.0 and the
\* peak: the new peak is below the maximum of the block
C17_Witness ==
    /\ audio_raw # None
    /\ BlockMax(audio_raw) > audio_peak
    /\ audio_bands[1] = Scale

=============================================================================
